---- MODULE Spec2Model ----
(***************************************************************************)
(* Bookkeeping core of simamiakodi-backend: payment plans and installment  *)
(* recording (controllers/paymentPlanController.js), tenant registration   *)
(* and unit occupancy (routes/tenantRoutes.js), agent commissions          *)
(* (controllers/agentcommissionController.js), utility bills               *)
(* (controllers/utilityController.js).                                     *)
(*                                                                         *)
(* Money is counted in mills (1/1000 of a currency unit) wherever it is a  *)
(* JavaScript number, and is rounded to whole cents (multiples of 10       *)
(* mills) when it is stored in a DECIMAL(10,2) column.  Dates are          *)
(* calendar dates [y, m, d]; the process time zone is taken to be UTC.     *)
(***************************************************************************)
EXTENDS Integers, Sequences, FiniteSets, TLC

VARIABLES plans, payments, txn, lastPlan,
          tenants, units, lastTenant,
          commissions, lastComm,
          utilities, lastUtil,
          creating, paying

planVars   == <<plans, payments, txn, lastPlan>>
tenantVars == <<tenants, units, lastTenant>>
commVars   == <<commissions, lastComm>>
utilVars   == <<utilities, lastUtil>>
reqVars    == <<creating, paying>>
vars       == <<plans, payments, txn, lastPlan, tenants, units, lastTenant,
                commissions, lastComm, utilities, lastUtil, creating, paying>>

(***************************************************************************)
(* Bounds of the model.                                                    *)
(***************************************************************************)
MaxPlans == 1
MaxPayments == 2
MaxTenants == 2
MaxCommissions == 1
MaxUtilities == 1

(***************************************************************************)
(* JavaScript values of a request body: undefined, null, a number (mills   *)
(* for an amount, the plain integer for an id) or a string (a sequence of  *)
(* one-character strings, or of whole words where only equality matters).  *)
(***************************************************************************)
Undef == [t |-> "undef", n |-> 0, s |-> <<>>]
Num(n) == [t |-> "num", n |-> n, s |-> <<>>]
Str(s) == [t |-> "str", n |-> 0, s |-> s]

\* ToBoolean: undefined, 0 and "" are falsy
Truthy(v) ==
  CASE v.t = "undef" -> FALSE
    [] v.t = "num" -> v.n # 0
    [] v.t = "bool" -> v.n = 1
    [] OTHER -> Len(v.s) > 0

\* a request value as a row id (0 when it names no row)
IdRef(v) == IF v.t = "num" THEN v.n ELSE 0

Digits == {"0", "1", "2", "3", "4", "5", "6", "7", "8", "9"}

DigitVal(c) ==
  CASE c = "0" -> 0 [] c = "1" -> 1 [] c = "2" -> 2 [] c = "3" -> 3
    [] c = "4" -> 4 [] c = "5" -> 5 [] c = "6" -> 6 [] c = "7" -> 7
    [] c = "8" -> 8 [] OTHER -> 9

\* number of leading digits of s from position i
RECURSIVE DigitRun(_, _)
DigitRun(s, i) ==
  IF i > Len(s) \/ s[i] \notin Digits THEN 0 ELSE 1 + DigitRun(s, i + 1)

\* value of the k digits of s that start at position i
RECURSIVE DigitsValue(_, _, _)
DigitsValue(s, i, k) ==
  IF k = 0 THEN 0
  ELSE 10 * DigitsValue(s, i, k - 1) + DigitVal(s[i + k - 1])

\* the fraction digits s[i .. i+k-1] in mills (digits past the third dropped)
FractionMills(s, i, k) ==
  (IF k >= 1 THEN 100 * DigitVal(s[i]) ELSE 0)
  + (IF k >= 2 THEN 10 * DigitVal(s[i + 1]) ELSE 0)
  + (IF k >= 3 THEN DigitVal(s[i + 2]) ELSE 0)

NaN == [nan |-> TRUE, v |-> 0]
Number(n) == [nan |-> FALSE, v |-> n]

\* parseFloat of a string: optional sign, longest numeric prefix, NaN when
\* that prefix has no digit; whatever follows the prefix is ignored
ParseFloatStr(s) ==
  LET signed == Len(s) >= 1 /\ s[1] \in {"-", "+"}
      neg == Len(s) >= 1 /\ s[1] = "-"
      i0 == IF signed THEN 2 ELSE 1
      ni == DigitRun(s, i0)
      dot == i0 + ni
      hasDot == dot <= Len(s) /\ s[dot] = "."
      nf == IF hasDot THEN DigitRun(s, dot + 1) ELSE 0
      mag == 1000 * DigitsValue(s, i0, ni) + FractionMills(s, dot + 1, nf)
  IN IF ni = 0 /\ nf = 0 THEN NaN
     ELSE Number(IF neg THEN 0 - mag ELSE mag)

\* parseFloat(v): a number converts to its decimal string and parses back
parseFloat(v) ==
  CASE v.t = "num" -> Number(v.n)
    [] v.t = "str" -> ParseFloatStr(v.s)
    [] OTHER -> NaN

isNaN(x) == x.nan

\* a string the database accepts as a numeric literal: the whole of it is
\* [sign] digits [. digits]
IsNumericLiteral(s) ==
  LET signed == Len(s) >= 1 /\ s[1] \in {"-", "+"}
      i0 == IF signed THEN 2 ELSE 1
      ni == DigitRun(s, i0)
      dot == i0 + ni
      hasDot == dot <= Len(s) /\ s[dot] = "."
      nf == IF hasDot THEN DigitRun(s, dot + 1) ELSE 0
      end == IF hasDot THEN dot + 1 + nf ELSE dot
  IN (ni > 0 \/ nf > 0) /\ end = Len(s) + 1

(***************************************************************************)
(* DECIMAL(10,2) columns: a value is rounded to cents, half away from zero *)
(***************************************************************************)
MillsPerCent == 10

Abs(n) == IF n < 0 THEN 0 - n ELSE n

RoundToCents(n) ==
  LET q == ((Abs(n) + 5) \div MillsPerCent) * MillsPerCent
  IN IF n < 0 THEN 0 - q ELSE q

(***************************************************************************)
(* Calendar dates and calculateNextDueDate                                 *)
(***************************************************************************)
NullDate == [y |-> 0, m |-> 0, d |-> 0]
Date(y, m, d) == [y |-> y, m |-> m, d |-> d]

\* a date as it arrives in a request body
NoDate == [t |-> "undef", y |-> 0, m |-> 0, d |-> 0]
IsoDate(y, m, d) == [t |-> "date", y |-> y, m |-> m, d |-> d]
BadDate == [t |-> "bad", y |-> 0, m |-> 0, d |-> 0]

IsLeap(y) == (y % 4 = 0 /\ y % 100 # 0) \/ y % 400 = 0

DaysInMonth(y, m) ==
  CASE m \in {4, 6, 9, 11} -> 30
    [] m = 2 -> IF IsLeap(y) THEN 29 ELSE 28
    [] OTHER -> 31

\* Date normalisation: a day past the end of the month runs into the
\* following months, a month past December into the following years
RECURSIVE Normalize(_, _, _)
Normalize(y, m, d) ==
  IF m > 12 THEN Normalize(y + 1, m - 12, d)
  ELSE IF d > DaysInMonth(y, m) THEN Normalize(y, m + 1, d - DaysInMonth(y, m))
  ELSE Date(y, m, d)

\* date.setDate(date.getDate() + n)
SetDatePlus(dt, n) == Normalize(dt.y, dt.m, dt.d + n)

\* date.setMonth(date.getMonth() + n)
SetMonthPlus(dt, n) == Normalize(dt.y, dt.m + n, dt.d)

calculateNextDueDate(currentDate, frequency) ==
  CASE frequency = "weekly" -> SetDatePlus(currentDate, 7)
    [] frequency = "biweekly" -> SetDatePlus(currentDate, 14)
    [] frequency = "monthly" -> SetMonthPlus(currentDate, 1)
    [] frequency = "quarterly" -> SetMonthPlus(currentDate, 3)
    [] OTHER -> SetMonthPlus(currentDate, 1)

(***************************************************************************)
(* Payment plans: createPaymentPlan                                        *)
(***************************************************************************)
validFrequencies == {"weekly", "biweekly", "monthly", "quarterly"}

\* installment_frequency || 'monthly'  ("" stands for an omitted or empty one)
DefaultFrequency(f) == IF f = "" THEN "monthly" ELSE f

\* NewPlanRow with the first installment counted as paid and the schedule
\* starting at start_date itself
NewPlanRowFirstPaid(body, totalAmt, installmentAmt, frequency) ==
  [ tenant_id |-> IdRef(body.tenant_id),
    total_amount |-> RoundToCents(totalAmt),
    amount_paid |-> 0,
    balance |-> RoundToCents(totalAmt - installmentAmt),
    installment_amount |-> RoundToCents(installmentAmt),
    installment_frequency |-> frequency,
    start_date |-> Date(body.start_date.y, body.start_date.m, body.start_date.d),
    next_due_date |-> Date(body.start_date.y, body.start_date.m, body.start_date.d),
    status |-> "active" ]

\* the row of the INSERT INTO payment_plans statement
NewPlanRow(body, totalAmt, installmentAmt, frequency) ==
  [ tenant_id |-> IdRef(body.tenant_id),
    total_amount |-> RoundToCents(totalAmt),
    amount_paid |-> 0,
    balance |-> RoundToCents(totalAmt),
    installment_amount |-> RoundToCents(installmentAmt),
    installment_frequency |-> frequency,
    start_date |-> Date(body.start_date.y, body.start_date.m, body.start_date.d),
    next_due_date |-> calculateNextDueDate(body.start_date, frequency),
    status |-> "active" ]

NoRow == [ tenant_id |-> 0, total_amount |-> 0, amount_paid |-> 0, balance |-> 0,
           installment_amount |-> 0, installment_frequency |-> "",
           start_date |-> NullDate, next_due_date |-> NullDate, status |-> "" ]

\* the outcome of the handler for a request body; dbFail: the INSERT is
\* refused by the database (foreign key, connection)
createPaymentPlan(body, dbFail) ==
  LET totalAmt == parseFloat(body.total_amount)
      installmentAmt == parseFloat(body.installment_amount)
      frequency == DefaultFrequency(body.installment_frequency)
  IN IF ~Truthy(body.tenant_id) \/ ~Truthy(body.total_amount)
        \/ ~Truthy(body.installment_amount) \/ body.start_date.t = "undef"
     THEN [status |-> 400, error |-> "missing", row |-> NoRow]
     ELSE IF isNaN(totalAmt) \/ isNaN(installmentAmt)
             \/ totalAmt.v <= 0 \/ installmentAmt.v <= 0
     THEN [status |-> 400, error |-> "numeric", row |-> NoRow]
     ELSE IF installmentAmt.v > totalAmt.v
     THEN [status |-> 400, error |-> "exceeds", row |-> NoRow]
     ELSE IF frequency \notin validFrequencies
     THEN [status |-> 400, error |-> "frequency", row |-> NoRow]
     \* new Date(start_date) is invalid: toISOString throws, caught below
     ELSE IF body.start_date.t = "bad"
     THEN [status |-> 500, error |-> "failed", row |-> NoRow]
     \* end_date || null violates NOT NULL; any other refusal of the INSERT
     ELSE IF body.end_date.t # "date" \/ dbFail
     THEN [status |-> 500, error |-> "failed", row |-> NoRow]
     ELSE [status |-> 201, error |-> "",
           row |-> NewPlanRow(body, totalAmt.v, installmentAmt.v, frequency)]

NoBody == [ tenant_id |-> Undef, total_amount |-> Undef,
            installment_amount |-> Undef, installment_frequency |-> "",
            start_date |-> NoDate, end_date |-> NoDate ]

\* lastPlan: the request and response of the latest createPaymentPlan call
NoLast == [op |-> "", status |-> 0, error |-> "", body |-> NoBody]

CreatePaymentPlan(body) ==
  \E dbFail \in BOOLEAN :
    LET res == createPaymentPlan(body, dbFail)
    IN /\ res.status = 201 => Len(plans) < MaxPlans
       /\ plans' = IF res.status = 201 THEN Append(plans, res.row) ELSE plans
       /\ lastPlan' = [op |-> "createPaymentPlan", status |-> res.status,
                       error |-> res.error, body |-> body]
       /\ UNCHANGED <<payments, txn, tenantVars, commVars, utilVars, reqVars>>

(***************************************************************************)
(* Payment plans: recordInstallmentPayment.  Each request runs on its own  *)
(* pooled client inside BEGIN .. COMMIT; the statements of concurrent      *)
(* requests interleave at every await.  The database runs READ COMMITTED:  *)
(* a SELECT sees committed rows only, an UPDATE waits for the row lock of  *)
(* another open transaction, and the writes of a transaction become        *)
(* visible together at COMMIT.                                             *)
(***************************************************************************)
\* the two requests of the concurrency scenarios
Reqs == {1, 2}

IdleTxn == [ pc |-> "idle", status |-> 0, error |-> "", id |-> 0, amount |-> Undef,
             payment_date |-> NoDate, now |-> NullDate, plan |-> NoRow,
             overlap |-> FALSE ]

\* the client is released; the response (status and error message) is kept
Finished(t, code, err) == [IdleTxn EXCEPT !.status = code, !.error = err]

InFlight(r) == txn[r].pc # "idle"

\* parseFloat(plan.amount_paid) + parseFloat(amount)
NewAmountPaid(plan, amount) ==
  LET a == parseFloat(amount)
  IN IF isNaN(a) THEN NaN ELSE Number(plan.amount_paid + a.v)

\* parseFloat(plan.total_amount) - newAmountPaid
NewBalance(plan, amount) ==
  LET p == NewAmountPaid(plan, amount)
  IN IF isNaN(p) THEN NaN ELSE Number(plan.total_amount - p.v)

\* newStatus: completed once newBalance <= 0 (never true of NaN)
NewStatus(plan, amount) ==
  LET b == NewBalance(plan, amount)
  IN IF ~isNaN(b) /\ b.v <= 0 THEN "completed" ELSE plan.status

\* payment_date || new Date()
PaymentDate(t) ==
  IF t.payment_date.t = "undef" THEN t.now
  ELSE Date(t.payment_date.y, t.payment_date.m, t.payment_date.d)

NextDueDate(t) ==
  IF NewStatus(t.plan, t.amount) = "completed" THEN NullDate
  ELSE calculateNextDueDate(PaymentDate(t), t.plan.installment_frequency)

\* the plan row as the UPDATE leaves it
UpdatedPlanRow(t) ==
  [t.plan EXCEPT !.amount_paid = RoundToCents(NewAmountPaid(t.plan, t.amount).v),
                 !.balance = RoundToCents(NewBalance(t.plan, t.amount).v),
                 !.next_due_date = NextDueDate(t),
                 !.status = NewStatus(t.plan, t.amount)]

\* the row of the INSERT INTO payments statement
InstallmentPaymentRow(t) ==
  [ tenant_id |-> t.plan.tenant_id,
    amount |-> RoundToCents(parseFloat(t.amount).v),
    payment_date |-> PaymentDate(t),
    payment_method |-> "M-Pesa",
    plan |-> t.id,
    payment_status |-> "completed" ]

\* the database takes the raw amount and payment_date of the request
PaymentInsertable(t) ==
  /\ t.amount.t = "str" => IsNumericLiteral(t.amount.s)
  /\ t.payment_date.t # "bad"

\* lines 316-354: validation, BEGIN, SELECT of the plan, the new figures
RecordStart(r, id, body, now) ==
  /\ ~InFlight(r)
  \* pool.connect() hands out the first free client
  /\ \A q \in Reqs : q < r => InFlight(q)
  /\ Len(payments) + Cardinality({q \in Reqs : InFlight(q)}) < MaxPayments
  /\ \E dbFail \in BOOLEAN :
       LET t == [IdleTxn EXCEPT !.id = id, !.amount = body.amount,
                                !.payment_date = body.payment_date,
                                !.now = now]
       IN txn' = [txn EXCEPT ![r] =
            IF ~Truthy(body.amount) THEN Finished(t, 400, "amount required")
            ELSE IF dbFail THEN Finished(t, 500, "select")
            ELSE IF id \notin 1 .. Len(plans) THEN Finished(t, 404, "not found")
            \* new Date(payment_date) is invalid: toISOString throws
            ELSE IF NewStatus(plans[id], body.amount) # "completed"
                    /\ body.payment_date.t = "bad" THEN Finished(t, 500, "date")
            ELSE [t EXCEPT !.pc = "update", !.plan = plans[id]]]
  /\ lastPlan' = NoLast
  /\ UNCHANGED <<plans, payments, tenantVars, commVars, utilVars, reqVars>>

RowLockedByOther(r) ==
  \E q \in Reqs \ {r} : txn[q].id = txn[r].id /\ txn[q].pc \in {"insert", "commit"}

\* RecordUpdate as it would be were the UPDATE sent through pool.query, outside
\* the transaction of the client: the new plan row is visible at once
RecordUpdateAutocommit(r) ==
  /\ txn[r].pc = "update"
  /\ ~RowLockedByOther(r)
  /\ \E dbFail \in BOOLEAN :
       IF dbFail
       THEN /\ txn' = [txn EXCEPT ![r] = Finished(txn[r], 500, "update")]
            /\ plans' = plans
       ELSE /\ txn' = [txn EXCEPT ![r].pc = "insert"]
            /\ plans' = [plans EXCEPT ![txn[r].id] = UpdatedPlanRow(txn[r])]
  /\ lastPlan' = NoLast
  /\ UNCHANGED <<payments, tenantVars, commVars, utilVars, reqVars>>

\* lines 356-365: UPDATE payment_plans, inside the transaction
RecordUpdate(r) ==
  /\ txn[r].pc = "update"
  /\ ~RowLockedByOther(r)
  /\ \E dbFail \in BOOLEAN :
       txn' = [txn EXCEPT ![r] =
                 IF dbFail THEN Finished(txn[r], 500, "update")
                 ELSE [txn[r] EXCEPT !.pc = "insert"]]
  /\ lastPlan' = NoLast
  /\ UNCHANGED <<plans, payments, tenantVars, commVars, utilVars, reqVars>>

\* lines 367-381: INSERT INTO payments, inside the transaction
RecordInsert(r) ==
  /\ txn[r].pc = "insert"
  /\ \E dbFail \in BOOLEAN :
       txn' = [txn EXCEPT ![r] =
                 IF dbFail \/ ~PaymentInsertable(txn[r])
                 THEN Finished(txn[r], 500, "insert")
                 ELSE [txn[r] EXCEPT !.pc = "commit"]]
  /\ lastPlan' = NoLast
  /\ UNCHANGED <<plans, payments, tenantVars, commVars, utilVars, reqVars>>

\* lines 383-405: COMMIT makes both writes visible; a failure rolls back
RecordCommit(r) ==
  /\ txn[r].pc = "commit"
  /\ \E dbFail \in BOOLEAN :
       IF dbFail
       THEN /\ txn' = [txn EXCEPT ![r] = Finished(txn[r], 500, "commit")]
            /\ UNCHANGED <<plans, payments>>
       ELSE /\ plans' = [plans EXCEPT ![txn[r].id] = UpdatedPlanRow(txn[r])]
            /\ payments' = Append(payments, InstallmentPaymentRow(txn[r]))
            /\ txn' = [q \in Reqs |->
                 IF q = r THEN Finished(txn[r], 200, "")
                 ELSE IF InFlight(q) /\ txn[q].id = txn[r].id
                      THEN [txn[q] EXCEPT !.overlap = TRUE]
                      ELSE txn[q]]
  /\ lastPlan' = NoLast
  /\ UNCHANGED <<tenantVars, commVars, utilVars, reqVars>>

(***************************************************************************)
(* Requests the model issues                                               *)
(***************************************************************************)
\* mills in one currency unit
Unit == 100 * MillsPerCent

PlanBodies ==
  { [ tenant_id |-> Num(1), total_amount |-> Num(1000 * Unit),
      installment_amount |-> Num(1000 * Unit), installment_frequency |-> "weekly",
      start_date |-> IsoDate(2025, 1, 1), end_date |-> IsoDate(2025, 12, 31) ] }

InstallmentAmounts ==
  { Undef, Num(0), Str(<<"1", "0", "0", "0">>), Num(0 - 1000 * Unit), Num(5),
    Str(<<"1", "a">>) }

InstallmentBodies ==
  { [amount |-> a, payment_date |-> NoDate] : a \in InstallmentAmounts }
  \cup { [amount |-> Str(<<"1", "0", "0", "0">>), payment_date |-> d]
         : d \in {IsoDate(2025, 1, 31), BadDate} }

Clock == {Date(2025, 3, 31)}

PlanIds == 1 .. (MaxPlans + 1)

(***************************************************************************)
(* The payment-plan engine                                                 *)
(***************************************************************************)
Next ==
  \/ \E body \in PlanBodies : CreatePaymentPlan(body)
  \/ \E r \in Reqs, id \in PlanIds, body \in InstallmentBodies, now \in Clock :
       RecordStart(r, id, body, now)
  \/ \E r \in Reqs : RecordUpdate(r)
  \/ \E r \in Reqs : RecordInsert(r)
  \/ \E r \in Reqs : RecordCommit(r)

(***************************************************************************)
(* createPaymentPlan on its own, over a wider range of request bodies      *)
(***************************************************************************)
\* Scenario A: total 30000, installment 5000, monthly, start 2025-01-01
ScenarioA ==
  [ tenant_id |-> Num(1), total_amount |-> Num(30000 * Unit),
    installment_amount |-> Num(5000 * Unit), installment_frequency |-> "monthly",
    start_date |-> IsoDate(2025, 1, 1), end_date |-> IsoDate(2025, 12, 31) ]

TotalInputs ==
  { Undef, Num(0), Num(0 - 5 * Unit), Num(30000 * Unit), Num(100 * Unit + 5),
    Str(<<"a">>), Str(<<"1", "2", "a">>), Str(<<"1", "2", ".", "5">>) }

InstallmentInputs ==
  { Undef, Num(0), Num(5000 * Unit), Num(40000 * Unit), Num(10 * Unit),
    Str(<<"b">>), Str(<<"5", "a">>) }

FrequencyInputs == {"", "weekly", "biweekly", "monthly", "quarterly", "daily"}

StartInputs == {NoDate, IsoDate(2025, 1, 1), IsoDate(2025, 1, 31), BadDate}

CreateBodies ==
  { [ScenarioA EXCEPT !.total_amount = t] : t \in TotalInputs }
  \cup { [ScenarioA EXCEPT !.installment_amount = i] : i \in InstallmentInputs }
  \cup { [ScenarioA EXCEPT !.total_amount = t, !.installment_amount = Num(10 * Unit)]
           : t \in {Str(<<"1", "2", "a">>), Str(<<"1", "2", ".", "5">>), Num(100 * Unit + 5)} }
  \cup { [ScenarioA EXCEPT !.installment_frequency = f] : f \in FrequencyInputs }
  \cup { [ScenarioA EXCEPT !.start_date = d] : d \in StartInputs }
  \cup { [ScenarioA EXCEPT !.installment_frequency = f, !.start_date = IsoDate(2025, 1, 31)]
           : f \in {"", "weekly", "quarterly", "daily"} }
  \cup { [ScenarioA EXCEPT !.tenant_id = Undef],
         [ScenarioA EXCEPT !.end_date = NoDate] }

NextCreate == \E body \in CreateBodies : CreatePaymentPlan(body)


(***************************************************************************)
(* Properties of the payment-plan engine                                   *)
(***************************************************************************)
PlanRows == 1 .. Len(plans)

\* request r commits successfully in this step
Committed(r) ==
  txn[r].pc = "commit" /\ txn'[r].pc = "idle" /\ txn'[r].status = 200

\* an amount the database stores as it is, without rounding
CentExact(n) == n % MillsPerCent = 0

\* C1: every stored payment plan has balance = total_amount - amount_paid
BalanceInvariant_C1 ==
  \A i \in PlanRows : plans[i].balance = plans[i].total_amount - plans[i].amount_paid

\* C2: a successful installment (of a positive whole-cent amount) that ran
\* concurrently with another successful installment on the same plan, which
\* raised amount_paid meanwhile, is applied on top of it: amount_paid grows by
\* its amount and balance falls by it, so that the two amounts add up
NoLostUpdate_C2 ==
  [][\A r \in Reqs :
       (/\ Committed(r) /\ txn[r].overlap
        /\ CentExact(parseFloat(txn[r].amount).v)
        /\ parseFloat(txn[r].amount).v > 0
        /\ plans[txn[r].id].amount_paid > txn[r].plan.amount_paid)
       => LET a == parseFloat(txn[r].amount).v
              i == txn[r].id
          IN /\ plans'[i].amount_paid = plans[i].amount_paid + a
             /\ plans'[i].balance = plans[i].balance - a]_vars

\* C3: recordInstallmentPayment is atomic: a step either makes the plan row
\* update and the new payment row visible together (a successful COMMIT), or
\* leaves the plan rows and the payments table as they were; in particular a
\* call that fails does the latter
Atomic_C3 ==
  [][IF lastPlan'.op = "createPaymentPlan"
     THEN payments' = payments
     ELSE \/ \E r \in Reqs :
               /\ Committed(r)
               /\ Len(payments') = Len(payments) + 1
               /\ SubSeq(payments', 1, Len(payments)) = payments
               /\ payments'[Len(payments')].plan = txn[r].id
               /\ payments'[Len(payments')].amount
                    = RoundToCents(parseFloat(txn[r].amount).v)
               /\ Len(plans') = Len(plans)
               /\ \A i \in PlanRows : i # txn[r].id => plans'[i] = plans[i]
               /\ plans'[txn[r].id].amount_paid
                    = RoundToCents(txn[r].plan.amount_paid + parseFloat(txn[r].amount).v)
          \/ /\ \A r \in Reqs : ~Committed(r)
             /\ plans' = plans
             /\ payments' = payments]_vars

\* C3 witness: a call failed at the payment INSERT, after its plan UPDATE had
\* run, and the plan is untouched and no payment row exists
Atomic_C3_Witness ==
  \E r \in Reqs :
    /\ txn[r].status = 500 /\ txn[r].error = "insert"
    /\ Len(plans) = 1 /\ plans[1].amount_paid = 0
    /\ payments = <<>>

\* C7: amount_paid of a plan never decreases
Monotonic_C7 ==
  [][\A i \in PlanRows : plans'[i].amount_paid >= plans[i].amount_paid]_vars

\* C8: a successful recordInstallmentPayment with new_balance = total_amount -
\* (amount_paid + amount) sets status completed and next_due_date null when
\* new_balance <= 0, otherwise keeps the status and sets next_due_date to
\* advance(payment_date or the current date, frequency); an amount above the
\* remaining balance leaves a negative balance and status completed
InstallmentOutcome_C8 ==
  [][\A r \in Reqs :
       Committed(r)
       => LET t == txn[r]
              a == parseFloat(t.amount).v
              new_balance == t.plan.total_amount - (t.plan.amount_paid + a)
              row == plans'[t.id]
              paid_on == IF t.payment_date.t = "undef" THEN t.now
                         ELSE Date(t.payment_date.y, t.payment_date.m, t.payment_date.d)
          IN /\ new_balance <= 0
                  => row.status = "completed" /\ row.next_due_date = NullDate
             /\ new_balance > 0
                  => /\ row.status = t.plan.status
                     /\ row.next_due_date
                          = calculateNextDueDate(paid_on, t.plan.installment_frequency)
             /\ a > t.plan.total_amount - t.plan.amount_paid
                  => row.balance < 0 /\ row.status = "completed"]_vars

NonNumeric(v) == v.t = "str" /\ ~IsNumericLiteral(v.s)

\* a request value that is missing, not a number or not positive
BadAmount(v) ==
  v.t = "undef" \/ NonNumeric(v) \/ isNaN(parseFloat(v)) \/ parseFloat(v).v <= 0

\* C10: createPaymentPlan answers 400 and inserts no row whenever total_amount
\* or installment_amount is missing, non-numeric or not positive, the
\* installment exceeds the total, or a frequency outside the four is given
CreateRejects_C10 ==
  [][(/\ lastPlan'.op = "createPaymentPlan"
      /\ LET b == lastPlan'.body
         IN \/ BadAmount(b.total_amount)
            \/ BadAmount(b.installment_amount)
            \/ parseFloat(b.installment_amount).v > parseFloat(b.total_amount).v
            \/ (b.installment_frequency # ""
                /\ b.installment_frequency \notin
                     {"weekly", "biweekly", "monthly", "quarterly"}))
     => (lastPlan'.status = 400 /\ plans' = plans)]_vars

(***************************************************************************)
(* Tenants and unit occupancy: routes/tenantRoutes.js                      *)
(***************************************************************************)
NumUnits == 2
UnitIds == 1 .. NumUnits

\* the properties table: unit 1 belongs to property 1, the others to property 2
PropertyIds == {1, 2}
PropertyOfUnit(u) == IF u = 1 THEN 1 ELSE 2

\* every character of s[i .. j] is a digit
AllDigits(s, i, j) == \A k \in i .. j : s[k] \in Digits

StartsWith(s, pre) ==
  Len(s) >= Len(pre) /\ SubSeq(s, 1, Len(pre)) = pre

\* validatePhone: 07XXXXXXXX / 01XXXXXXXX, +2547XXXXXXXX / +2541XXXXXXXX,
\* 2547XXXXXXXX / 2541XXXXXXXX
validatePhone(phone) ==
  /\ Truthy(phone)
  /\ LET str == phone.s
     IN \/ /\ Len(str) = 10
           /\ (StartsWith(str, <<"0", "7">>) \/ StartsWith(str, <<"0", "1">>))
           /\ AllDigits(str, 3, 10)
        \/ /\ Len(str) = 13 /\ StartsWith(str, <<"+", "2", "5", "4">>)
           /\ str[5] \in {"1", "7"} /\ AllDigits(str, 6, 13)
        \/ /\ Len(str) = 12 /\ StartsWith(str, <<"2", "5", "4">>)
           /\ str[4] \in {"1", "7"} /\ AllDigits(str, 5, 12)

\* /^[^\s@]+@[^\s@]+\.[^\s@]+$/ : one "@", not first, no blank, and a "."
\* after it that has a character on either side
emailRegexTest(email) ==
  LET str == email.s
      ats == {k \in 1 .. Len(str) : str[k] = "@"}
  IN /\ Cardinality(ats) = 1
     /\ \A k \in 1 .. Len(str) : str[k] # " "
     /\ \E a \in ats :
          /\ a > 1
          /\ \E d \in (a + 2) .. (Len(str) - 1) : str[d] = "."

ActiveTenantsOf(u) ==
  {i \in 1 .. Len(tenants) : tenants[i].is_active /\ tenants[i].unit_id = u}

\* the unit_id of a request as a row id (0 when it names no row)
UnitRef(v) == IF v.t = "num" THEN v.n ELSE 0

NoTenantBody == [full_name |-> Undef, phone |-> Undef, email |-> Undef,
                 unit_id |-> Undef]

NoLastTenant == [op |-> "", status |-> 0, id |-> 0, body |-> NoTenantBody]

\* router.post('/') without the test of the email format
PostTenantAnyEmail(body, fault) ==
  LET rejected ==
        \/ ~Truthy(body.full_name) \/ ~Truthy(body.phone)
        \/ ~Truthy(body.email) \/ ~Truthy(body.unit_id)
        \/ ~validatePhone(body.phone)
        \/ \E i \in 1 .. Len(tenants) :
             tenants[i].email = body.email.s /\ tenants[i].is_active
      u == UnitRef(body.unit_id)
      \* tenants.unit_id REFERENCES units(unit_id)
      inserted == ~rejected /\ fault # "insert" /\ u \in UnitIds
      row == [ email |-> body.email.s, unit_id |-> u, is_active |-> TRUE,
               moved_out |-> FALSE, id_number |-> <<>> ]
  IN /\ inserted => Len(tenants) < MaxTenants
     /\ tenants' = IF inserted THEN Append(tenants, row) ELSE tenants
     /\ units' = IF inserted /\ fault # "occupy"
                 THEN [units EXCEPT ![u].is_occupied = TRUE] ELSE units
     /\ lastTenant' = [ op |-> "post",
                        status |-> IF rejected THEN 400
                                   ELSE IF inserted /\ fault = "none" THEN 201
                                   ELSE 500,
                        id |-> IF inserted THEN Len(tenants) + 1 ELSE 0,
                        body |-> body ]
     /\ UNCHANGED <<planVars, commVars, utilVars, reqVars>>

\* router.post('/'), lines 11-115.  fault: the statement the database
\* refuses ("insert", "occupy") or "none"
PostTenant(body, fault) ==
  LET rejected ==
        \/ ~Truthy(body.full_name) \/ ~Truthy(body.phone)
        \/ ~Truthy(body.email) \/ ~Truthy(body.unit_id)
        \/ ~validatePhone(body.phone)
        \/ ~emailRegexTest(body.email)
        \/ \E i \in 1 .. Len(tenants) :
             tenants[i].email = body.email.s /\ tenants[i].is_active
      u == UnitRef(body.unit_id)
      \* tenants.unit_id REFERENCES units(unit_id)
      inserted == ~rejected /\ fault # "insert" /\ u \in UnitIds
      row == [ email |-> body.email.s, unit_id |-> u, is_active |-> TRUE,
               moved_out |-> FALSE, id_number |-> <<>> ]
  IN /\ inserted => Len(tenants) < MaxTenants
     /\ tenants' = IF inserted THEN Append(tenants, row) ELSE tenants
     /\ units' = IF inserted /\ fault # "occupy"
                 THEN [units EXCEPT ![u].is_occupied = TRUE] ELSE units
     /\ lastTenant' = [ op |-> "post",
                        status |-> IF rejected THEN 400
                                   ELSE IF inserted /\ fault = "none" THEN 201
                                   ELSE 500,
                        id |-> IF inserted THEN Len(tenants) + 1 ELSE 0,
                        body |-> body ]
     /\ UNCHANGED <<planVars, commVars, utilVars, reqVars>>

\* DeleteTenant as it would be without the release of the unit: the tenant
\* is deactivated and its unit stays occupied
DeleteTenantKeepsUnit(id, fault) ==
  LET found == id \in 1 .. Len(tenants)
      deactivated == found /\ fault \notin {"select", "deactivate"}
  IN /\ tenants' = IF deactivated
                   THEN [tenants EXCEPT ![id].is_active = FALSE,
                                        ![id].moved_out = TRUE]
                   ELSE tenants
     /\ units' = units
     /\ lastTenant' = [ op |-> "delete",
                        status |-> IF fault = "select" THEN 500
                                   ELSE IF ~found THEN 404
                                   ELSE IF fault = "none" THEN 200 ELSE 500,
                        id |-> id, body |-> NoTenantBody ]
     /\ UNCHANGED <<planVars, commVars, utilVars, reqVars>>

\* router.delete('/:id'), lines 292-335.  fault: "select", "deactivate",
\* "release" or "none"
DeleteTenant(id, fault) ==
  LET found == id \in 1 .. Len(tenants)
      deactivated == found /\ fault \notin {"select", "deactivate"}
      u == IF found THEN tenants[id].unit_id ELSE 0
  IN /\ tenants' = IF deactivated
                   THEN [tenants EXCEPT ![id].is_active = FALSE,
                                        ![id].moved_out = TRUE]
                   ELSE tenants
     /\ units' = IF deactivated /\ u # 0 /\ fault # "release"
                 THEN [units EXCEPT ![u].is_occupied = FALSE] ELSE units
     /\ lastTenant' = [ op |-> "delete",
                        status |-> IF fault = "select" THEN 500
                                   ELSE IF ~found THEN 404
                                   ELSE IF fault = "none" THEN 200 ELSE 500,
                        id |-> id, body |-> NoTenantBody ]
     /\ UNCHANGED <<planVars, commVars, utilVars, reqVars>>

\* a JSON boolean
Bool(b) == [t |-> "bool", n |-> IF b THEN 1 ELSE 0, s |-> <<>>]

\* a PUT body with no key
NoTenantUpdates == [phone |-> Undef, email |-> Undef, unit_id |-> Undef,
                    is_active |-> Undef]

\* router.put('/:id'), lines 222-289: every key of the body becomes a column
\* of the SET clause.  fault: "update" or "none"
PutTenant(id, updates, fault) ==
  LET keys == {k \in DOMAIN updates : updates[k].t # "undef"}
      found == id \in 1 .. Len(tenants)
      refused ==
        \* phone is NOT NULL; unit_id REFERENCES units(unit_id)
        \/ updates.phone.t = "null"
        \/ updates.unit_id.t \notin {"undef", "null"}
           /\ UnitRef(updates.unit_id) \notin UnitIds
        \/ updates.is_active.t \notin {"undef", "null", "bool"}
      status ==
        IF Truthy(updates.phone) /\ ~validatePhone(updates.phone) THEN 400
        ELSE IF Truthy(updates.email) /\ ~emailRegexTest(updates.email) THEN 400
        \* an empty SET clause is a syntax error
        ELSE IF fault = "update" \/ keys = {} THEN 500
        ELSE IF ~found THEN 404
        ELSE IF refused THEN 500
        ELSE 200
      row == [ email |-> IF "email" \in keys THEN updates.email.s
                         ELSE tenants[id].email,
               unit_id |-> IF "unit_id" \in keys THEN UnitRef(updates.unit_id)
                           ELSE tenants[id].unit_id,
               is_active |-> IF "is_active" \in keys /\ updates.is_active.t = "bool"
                             THEN updates.is_active.n = 1
                             ELSE tenants[id].is_active,
               moved_out |-> tenants[id].moved_out,
               id_number |-> tenants[id].id_number ]
  IN /\ tenants' = IF status = 200 THEN [tenants EXCEPT ![id] = row] ELSE tenants
     /\ lastTenant' = [ op |-> "put", status |-> status, id |-> id,
                        body |-> NoTenantBody ]
     /\ UNCHANGED <<units, planVars, commVars, utilVars, reqVars>>

GoodPhone == Str(<<"0", "7", "1", "2", "3", "4", "5", "6", "7", "8">>)
EmailA == Str(<<"a", "@", "b", ".", "c">>)
EmailB == Str(<<"d", "@", "b", ".", "c">>)

TenantBodies ==
  { [full_name |-> Str(<<"A">>), phone |-> GoodPhone, email |-> e, unit_id |-> u]
      : e \in {EmailA, EmailB}, u \in {Num(1), Num(2)} }
  \cup { [full_name |-> Str(<<"A">>), phone |-> GoodPhone, email |-> EmailA,
          unit_id |-> u] : u \in {Undef, Num(NumUnits + 1)} }
  \cup { [full_name |-> Str(<<"A">>), phone |-> Str(<<"1", "2", "3">>),
          email |-> EmailA, unit_id |-> Num(1)],
         [full_name |-> Str(<<"A">>), phone |-> GoodPhone,
          email |-> Str(<<"a", "b">>), unit_id |-> Num(1)],
         [full_name |-> Undef, phone |-> GoodPhone, email |-> EmailA,
          unit_id |-> Num(1)],
         [full_name |-> Str(<<"A">>), phone |-> Undef, email |-> EmailA,
          unit_id |-> Num(1)],
         [full_name |-> Str(<<"A">>), phone |-> GoodPhone, email |-> Undef,
          unit_id |-> Num(1)] }

TenantIds == 1 .. (MaxTenants + 1)

TenantUpdates ==
  { [NoTenantUpdates EXCEPT !.email = e] : e \in {EmailA, Str(<<"a", "b">>)} }
  \cup { NoTenantUpdates,
         [NoTenantUpdates EXCEPT !.is_active = Bool(TRUE)],
         [NoTenantUpdates EXCEPT !.unit_id = Num(NumUnits + 1)],
         [NoTenantUpdates EXCEPT !.phone = Str(<<"1", "2", "3">>)] }

NextTenant ==
  \/ \E body \in TenantBodies : PostTenant(body, "none")
  \/ \E id \in TenantIds, updates \in TenantUpdates : PutTenant(id, updates, "none")
  \/ \E id \in TenantIds : DeleteTenant(id, "none")


\* C4: for every unit, is_occupied holds exactly when one active tenant
\* references the unit
Occupancy_C4 ==
  \A u \in UnitIds :
    units[u].is_occupied <=> Cardinality(ActiveTenantsOf(u)) = 1

(***************************************************************************)
(* Agent commissions: controllers/agentcommissionController.js             *)
(***************************************************************************)
Null == [t |-> "null", n |-> 0, s |-> <<>>]

\* a string value that is one token (a status, a note, a reference)
Text(w) == Str(<<w>>)

\* Number(v), the coercion behind the global isNaN
ToNumber(v) ==
  CASE v.t = "num" -> Number(v.n)
    [] v.t = "null" -> Number(0)
    [] v.t = "str" -> IF Len(v.s) = 0 THEN Number(0)
                      ELSE IF IsNumericLiteral(v.s) THEN ParseFloatStr(v.s)
                      ELSE NaN
    [] OTHER -> NaN

\* validators
isPositiveNumber(value) ==
  ~isNaN(ToNumber(value)) /\ ~isNaN(parseFloat(value)) /\ parseFloat(value).v > 0

isValidPercentage(value) ==
  /\ ~isNaN(ToNumber(value)) /\ ~isNaN(parseFloat(value))
  /\ parseFloat(value).v >= 0 /\ parseFloat(value).v <= 100 * Unit

PhoneChars == Digits \cup {" ", "-", "+", "(", ")"}

isValidPhone(phone) ==
  /\ phone.t = "str"
  /\ Len(phone.s) >= 10 /\ Len(phone.s) <= 20
  /\ \A k \in 1 .. Len(phone.s) : phone.s[k] \in PhoneChars

CommissionStatuses == {"pending", "paid", "cancelled"}

isValidStatus(status) ==
  status.t = "str" /\ Len(status.s) = 1 /\ status.s[1] \in CommissionStatuses

UPDATEABLE_FIELDS ==
  { "tenant_id", "property_id", "agent_name", "agent_phone",
    "commission_amount", "commission_percentage", "status", "notes" }

\* the keys a request body may carry: the whitelist and a foreign one
BodyKeys == UPDATEABLE_FIELDS \cup {"paid_date"}

\* a body with no key; a key is present when its value is not undefined
NoFields == [k \in BodyKeys |-> Undef]

ObjectKeys(data) == {k \in DOMAIN data : data[k].t # "undef"}

\* validateCommissionInput: the set of errors
validateCommissionInput(data, isUpdate) ==
  (IF ~isUpdate /\ ~Truthy(data.property_id) THEN {"property_id is required"} ELSE {})
  \cup (IF ~isUpdate /\ ~Truthy(data.agent_name) THEN {"agent_name is required"} ELSE {})
  \cup (IF ~isUpdate /\ ~Truthy(data.commission_amount)
        THEN {"commission_amount is required"} ELSE {})
  \cup (IF Truthy(data.commission_amount) /\ ~isPositiveNumber(data.commission_amount)
        THEN {"commission_amount must be a positive number"} ELSE {})
  \cup (IF data.commission_percentage.t \notin {"undef", "null"}
           /\ ~isValidPercentage(data.commission_percentage)
        THEN {"commission_percentage must be between 0 and 100"} ELSE {})
  \cup (IF Truthy(data.agent_phone) /\ ~isValidPhone(data.agent_phone)
        THEN {"agent_phone format is invalid"} ELSE {})
  \cup (IF Truthy(data.status) /\ ~isValidStatus(data.status)
        THEN {"status must be one of: pending, paid, cancelled"} ELSE {})
  \cup (IF Truthy(data.agent_name)
           /\ (Len(data.agent_name.s) < 2 \/ Len(data.agent_name.s) > 100)
        THEN {"agent_name must be between 2 and 100 characters"} ELSE {})

\* String.prototype.trim
RECURSIVE Trim(_)
Trim(str) ==
  IF Len(str) > 0 /\ str[1] = " " THEN Trim(Tail(str))
  ELSE IF Len(str) > 0 /\ str[Len(str)] = " " THEN Trim(SubSeq(str, 1, Len(str) - 1))
  ELSE str

\* a NULL in a numeric column
NullNumber == 0 - 1

\* a NULL status: the column is nullable and NULL passes its CHECK
NullStatus == "NULL"

\* the value a column takes from a request value
ColumnValue(field, v) ==
  CASE field \in {"tenant_id", "property_id"} -> IdRef(v)
    [] field = "commission_amount" -> RoundToCents(ToNumber(v).v)
    [] field = "commission_percentage"
         -> IF v.t \in {"undef", "null"} THEN NullNumber
            ELSE RoundToCents(ToNumber(v).v)
    [] field = "status" -> IF v.t = "null" THEN NullStatus ELSE v.s[1]
    [] OTHER -> v.s

\* the SQLSTATE with which the database refuses the value for the column,
\* "" when it accepts it: a missing referenced row, a malformed number,
\* NOT NULL, the CHECK on status
ColumnError(field, v) ==
  CASE field = "tenant_id"
         -> IF v.t # "null" /\ IdRef(v) \notin 1 .. Len(tenants) THEN "23503" ELSE ""
    [] field = "property_id"
         -> IF v.t = "null" THEN "23502"
            ELSE IF IdRef(v) \notin PropertyIds THEN "23503" ELSE ""
    [] field = "commission_amount"
         -> IF v.t = "null" THEN "23502"
            ELSE IF v.t = "str" /\ ~IsNumericLiteral(v.s) THEN "22P02" ELSE ""
    [] field = "commission_percentage"
         -> IF v.t = "str" /\ ~IsNumericLiteral(v.s) THEN "22P02" ELSE ""
    [] field = "status"
         -> IF v.t # "null" /\ ~isValidStatus(v) THEN "23514" ELSE ""
    [] OTHER -> ""

\* handleDatabaseError: the response status for a SQLSTATE
handleDatabaseError(code) ==
  CASE code \in {"23503", "22P02"} -> 400
    [] code = "23505" -> 409
    [] OTHER -> 500

NoLastComm == [op |-> "", status |-> 0, id |-> 0, body |-> NoFields]

\* createCommission, lines 239-332
CreateCommission(body, dbFail) ==
  LET errors == validateCommissionInput(body, FALSE)
      p == IdRef(body.property_id)
      t == IdRef(body.tenant_id)
      status ==
        IF errors # {} THEN 400
        ELSE IF dbFail THEN 500
        ELSE IF p \notin PropertyIds THEN 400
        ELSE IF Truthy(body.tenant_id) /\ t \notin 1 .. Len(tenants) THEN 400
        \* the join of the tenant with its unit on the property
        ELSE IF Truthy(body.tenant_id)
                /\ ~(tenants[t].unit_id \in UnitIds
                     /\ units[tenants[t].unit_id].property_id = p) THEN 400
        ELSE 201
      row == [ tenant_id |-> t, property_id |-> p,
               agent_name |-> Trim(body.agent_name.s),
               agent_phone |-> body.agent_phone.s,
               commission_amount |-> ColumnValue("commission_amount", body.commission_amount),
               commission_percentage |->
                 ColumnValue("commission_percentage", body.commission_percentage),
               status |-> "pending",
               notes |-> body.notes.s,
               paid_date |-> NullDate,
               payment_reference |-> <<>> ]
  IN /\ status = 201 => Len(commissions) < MaxCommissions
     /\ commissions' = IF status = 201 THEN Append(commissions, row) ELSE commissions
     /\ lastComm' = [op |-> "createCommission", status |-> status,
                     id |-> IF status = 201 THEN Len(commissions) + 1 ELSE 0,
                     body |-> body]
     /\ UNCHANGED <<planVars, tenantVars, utilVars, reqVars>>

\* updateCommission, lines 337-426.  id = 0 stands for an id that is not a
\* string of digits
UpdateCommission(id, updates, dbFail) ==
  LET fields == ObjectKeys(updates) \cap UPDATEABLE_FIELDS
      allowedUpdates == [k \in BodyKeys |-> IF k \in fields THEN updates[k] ELSE Undef]
      errors == validateCommissionInput(allowedUpdates, TRUE)
      found == id \in 1 .. Len(commissions)
      refused == {k \in fields : ColumnError(k, updates[k]) # ""}
      status ==
        IF id = 0 THEN 400
        ELSE IF fields = {} THEN 400
        ELSE IF errors # {} THEN 400
        ELSE IF dbFail THEN 500
        ELSE IF ~found THEN 404
        ELSE IF commissions[id].status = "paid" /\ ~Truthy(updates.notes) THEN 400
        ELSE IF refused # {}
        THEN handleDatabaseError(ColumnError(CHOOSE k \in refused : TRUE,
                                             updates[CHOOSE k \in refused : TRUE]))
        ELSE 200
  IN /\ commissions' =
          IF status = 200
          THEN [commissions EXCEPT ![id] =
                  [k \in DOMAIN commissions[id] |->
                     IF k \in fields THEN ColumnValue(k, updates[k])
                     ELSE commissions[id][k]]]
          ELSE commissions
     /\ lastComm' = [op |-> "updateCommission", status |-> status, id |-> id,
                     body |-> updates]
     /\ UNCHANGED <<planVars, tenantVars, utilVars, reqVars>>

\* new Date(paid_date).toISOString() read by the DATE column: the UTC date of
\* a date-only ISO string, or that of the clock when paid_date is falsy
PaidDateValue(body, now) ==
  IF body.paid_date = NoDate THEN now
  ELSE Normalize(body.paid_date.y, body.paid_date.m, body.paid_date.d)

\* markAsPaid without its already-paid check
MarkAsPaidAgain(id, body, now, dbFail) ==
  LET found == id \in 1 .. Len(commissions)
      status ==
        IF id = 0 THEN 400
        ELSE IF dbFail THEN 500
        ELSE IF ~found THEN 404
        ELSE IF body.paid_date = BadDate THEN 500
        ELSE 200
  IN /\ commissions' =
          IF status = 200
          THEN [commissions EXCEPT
                  ![id].status = "paid",
                  ![id].paid_date = PaidDateValue(body, now),
                  ![id].payment_reference = body.payment_reference.s]
          ELSE commissions
     /\ lastComm' = [op |-> "markAsPaid", status |-> status, id |-> id,
                     body |-> NoFields]
     /\ UNCHANGED <<planVars, tenantVars, utilVars, reqVars>>

\* markAsPaid, lines 431-494
MarkAsPaid(id, body, now, dbFail) ==
  LET found == id \in 1 .. Len(commissions)
      status ==
        IF id = 0 THEN 400
        ELSE IF dbFail THEN 500
        ELSE IF ~found THEN 404
        ELSE IF commissions[id].status = "paid" THEN 400
        \* new Date(paid_date).toISOString() throws on an invalid date
        ELSE IF body.paid_date = BadDate THEN 500
        ELSE 200
  IN /\ commissions' =
          IF status = 200
          THEN [commissions EXCEPT
                  ![id].status = "paid",
                  ![id].paid_date = PaidDateValue(body, now),
                  ![id].payment_reference = body.payment_reference.s]
          ELSE commissions
     /\ lastComm' = [op |-> "markAsPaid", status |-> status, id |-> id,
                     body |-> NoFields]
     /\ UNCHANGED <<planVars, tenantVars, utilVars, reqVars>>

\* the longest notes column the model lets deleteCommission build
MaxNotes == 5

\* deleteCommission without its refusal of paid commissions
DeleteCommissionAnyStatus(id, reason, dbFail) ==
  LET found == id \in 1 .. Len(commissions)
      status ==
        IF id = 0 THEN 400
        ELSE IF dbFail THEN 500
        ELSE IF ~found THEN 404
        ELSE 200
      \* CONCAT(COALESCE(notes, ''), ' [CANCELLED: ', COALESCE($1, ...), ']')
      marker == <<" [CANCELLED: ">>
                \o (IF reason.t \in {"undef", "null"} THEN <<"No reason provided">>
                    ELSE reason.s)
                \o <<"]">>
  IN /\ status = 200 => Len(commissions[id].notes) + Len(marker) <= MaxNotes
     /\ commissions' =
          IF status = 200
          THEN [commissions EXCEPT
                  ![id].status = "cancelled",
                  ![id].notes = @ \o marker]
          ELSE commissions
     /\ lastComm' = [op |-> "deleteCommission", status |-> status, id |-> id,
                     body |-> NoFields]
     /\ UNCHANGED <<planVars, tenantVars, utilVars, reqVars>>

\* deleteCommission, lines 618-678: a soft delete
DeleteCommission(id, reason, dbFail) ==
  LET found == id \in 1 .. Len(commissions)
      status ==
        IF id = 0 THEN 400
        ELSE IF dbFail THEN 500
        ELSE IF ~found THEN 404
        ELSE IF commissions[id].status = "paid" THEN 400
        ELSE 200
      \* CONCAT(COALESCE(notes, ''), ' [CANCELLED: ', COALESCE($1, ...), ']')
      marker == <<" [CANCELLED: ">>
                \o (IF reason.t \in {"undef", "null"} THEN <<"No reason provided">>
                    ELSE reason.s)
                \o <<"]">>
  IN /\ status = 200 => Len(commissions[id].notes) + Len(marker) <= MaxNotes
     /\ commissions' =
          IF status = 200
          THEN [commissions EXCEPT
                  ![id].status = "cancelled",
                  ![id].notes = @ \o marker]
          ELSE commissions
     /\ lastComm' = [op |-> "deleteCommission", status |-> status, id |-> id,
                     body |-> NoFields]
     /\ UNCHANGED <<planVars, tenantVars, utilVars, reqVars>>

\* requests of the commission endpoints
AgentName == Str(<<"J", "o">>)

CommissionBody(tenant, property, amount) ==
  [NoFields EXCEPT !.tenant_id = tenant, !.property_id = property,
                   !.agent_name = AgentName, !.commission_amount = amount]

CommissionBodies ==
  { CommissionBody(t, p, Num(1500 * Unit)) :
      t \in {Undef, Num(1)}, p \in {Num(1), Num(2), Num(3)} }
  \cup { CommissionBody(Undef, Num(1), a) : a \in {Undef, Num(0 - 5 * Unit)} }

CommissionUpdates ==
  { [NoFields EXCEPT !.commission_amount = Num(2000 * Unit)],
    [NoFields EXCEPT !.notes = Text("x")],
    [NoFields EXCEPT !.notes = Text("x"), !.commission_amount = Num(2000 * Unit)],
    [NoFields EXCEPT !.notes = Text("x"), !.status = Text("pending")],
    [NoFields EXCEPT !.status = Text("cancelled")],
    [NoFields EXCEPT !.status = Text("refunded")],
    [NoFields EXCEPT !.status = Str(<<>>)],
    [NoFields EXCEPT !.paid_date = Text("2025-01-01")],
    [NoFields EXCEPT !.tenant_id = Num(MaxTenants + 1)] }

PaidBodies ==
  { [paid_date |-> NoDate, payment_reference |-> Undef],
    [paid_date |-> IsoDate(2025, 1, 31), payment_reference |-> Text("REF1")],
    [paid_date |-> BadDate, payment_reference |-> Undef] }

Reasons == {Undef, Text("duplicate")}

\* 0 is an id that is not a string of digits
CommissionIds == 0 .. (MaxCommissions + 1)

CommTenantBody ==
  [full_name |-> Str(<<"A">>), phone |-> GoodPhone, email |-> EmailA,
   unit_id |-> Num(1)]

NextComm ==
  \/ PostTenant(CommTenantBody, "none")
  \/ \E body \in CommissionBodies : CreateCommission(body, FALSE)
  \/ \E id \in CommissionIds, updates \in CommissionUpdates :
       UpdateCommission(id, updates, FALSE)
  \/ \E id \in CommissionIds, body \in PaidBodies, now \in Clock :
       MarkAsPaid(id, body, now, FALSE)
  \/ \E id \in CommissionIds, reason \in Reasons :
       DeleteCommission(id, reason, FALSE)

(***************************************************************************)
(* Utility bills: createUtility and updateUtility.  Readings and rates are *)
(* numbers in mills; the DECIMAL(10,2) columns keep whole cents.           *)
(***************************************************************************)
NoLastUtil == [op |-> "", status |-> 0, id |-> 0]

\* a * b of two numbers in mills
Times(a, b) == (a * b) \div Unit

\* the columns updateUtility may be asked to write
UtilityColumns ==
  {"previous_reading", "current_reading", "units_consumed", "rate_per_unit",
   "amount_due"}

NoUtilityFields ==
  [ unit_id |-> Undef, tenant_id |-> Undef, utility_type |-> Undef,
    billing_month |-> Undef, previous_reading |-> Undef,
    current_reading |-> Undef, units_consumed |-> Undef,
    rate_per_unit |-> Undef, amount_due |-> Undef ]

\* createUtility, lines 62-107.  dbFail: the INSERT is refused
CreateUtility(body, dbFail) ==
  LET missing ==
        \/ ~Truthy(body.unit_id) \/ ~Truthy(body.tenant_id)
        \/ ~Truthy(body.utility_type) \/ ~Truthy(body.billing_month)
        \/ ~Truthy(body.current_reading) \/ ~Truthy(body.rate_per_unit)
      \* previous_reading || 0
      previous == IF Truthy(body.previous_reading)
                  THEN ToNumber(body.previous_reading).v ELSE 0
      unitsConsumed == ToNumber(body.current_reading).v - previous
      amountDue == Times(unitsConsumed, ToNumber(body.rate_per_unit).v)
      \* CONSTRAINT unique_utility_billing UNIQUE(unit_id, utility_type, billing_month)
      duplicate ==
        \E i \in 1 .. Len(utilities) :
          /\ utilities[i].unit_id = IdRef(body.unit_id)
          /\ utilities[i].utility_type = body.utility_type.s
          /\ utilities[i].billing_month = body.billing_month.s
      status == IF missing THEN 400
                ELSE IF dbFail \/ duplicate THEN 500
                ELSE 201
      row == [ unit_id |-> IdRef(body.unit_id),
               utility_type |-> body.utility_type.s,
               billing_month |-> body.billing_month.s,
               previous_reading |-> RoundToCents(previous),
               current_reading |-> RoundToCents(ToNumber(body.current_reading).v),
               units_consumed |-> RoundToCents(unitsConsumed),
               rate_per_unit |-> RoundToCents(ToNumber(body.rate_per_unit).v),
               amount_due |-> RoundToCents(amountDue) ]
  IN /\ status = 201 => Len(utilities) < MaxUtilities
     /\ utilities' = IF status = 201 THEN Append(utilities, row) ELSE utilities
     /\ lastUtil' = [op |-> "createUtility", status |-> status,
                     id |-> IF status = 201 THEN Len(utilities) + 1 ELSE 0]
     /\ UNCHANGED <<planVars, tenantVars, commVars, reqVars>>

\* updateUtility, lines 109-153: the derived columns are computed only when
\* the three inputs are all truthy; every key of the body is written
UpdateUtility(id, updates, dbFail) ==
  LET derive == /\ Truthy(updates.current_reading)
                /\ Truthy(updates.previous_reading)
                /\ Truthy(updates.rate_per_unit)
      unitsConsumed == ToNumber(updates.current_reading).v
                       - ToNumber(updates.previous_reading).v
      derived ==
        IF derive
        THEN [updates EXCEPT
                !.units_consumed = Num(unitsConsumed),
                !.amount_due = Num(Times(unitsConsumed,
                                         ToNumber(updates.rate_per_unit).v))]
        ELSE updates
      fields == {k \in UtilityColumns : derived[k] # Undef}
      found == id \in 1 .. Len(utilities)
      status == IF fields = {} THEN 400
                ELSE IF dbFail THEN 500
                ELSE IF ~found THEN 404
                ELSE 200
  IN /\ utilities' =
          IF status = 200
          THEN [utilities EXCEPT ![id] =
                  [k \in DOMAIN utilities[id] |->
                     IF k \in fields THEN RoundToCents(ToNumber(derived[k]).v)
                     ELSE utilities[id][k]]]
          ELSE utilities
     /\ lastUtil' = [op |-> "updateUtility", status |-> status, id |-> id]
     /\ UNCHANGED <<planVars, tenantVars, commVars, reqVars>>

\* requests of the utility endpoints
UtilityBody(previous, current, rate) ==
  [NoUtilityFields EXCEPT !.unit_id = Num(1), !.tenant_id = Num(1),
                          !.utility_type = Text("water"),
                          !.billing_month = Text("2025-01-01"),
                          !.previous_reading = previous,
                          !.current_reading = current, !.rate_per_unit = rate]

UtilityBodies ==
  { UtilityBody(p, c, r) : p \in {Undef, Num(5 * Unit)},
                           c \in {Undef, Num(20 * Unit)},
                           r \in {Num(2 * Unit), Num(3 * Unit)} }

UtilityUpdates ==
  { NoUtilityFields,
    [NoUtilityFields EXCEPT !.current_reading = Num(30 * Unit)],
    [NoUtilityFields EXCEPT !.rate_per_unit = Num(7 * Unit)],
    [NoUtilityFields EXCEPT !.units_consumed = Num(Unit)],
    [NoUtilityFields EXCEPT !.previous_reading = Num(10 * Unit),
                            !.current_reading = Num(30 * Unit),
                            !.rate_per_unit = Num(2 * Unit)],
    [NoUtilityFields EXCEPT !.previous_reading = Num(0),
                            !.current_reading = Num(30 * Unit),
                            !.rate_per_unit = Num(2 * Unit)] }

UtilityIds == 1 .. (MaxUtilities + 1)

NextUtil ==
  \/ \E body \in UtilityBodies, dbFail \in BOOLEAN : CreateUtility(body, dbFail)
  \/ \E id \in UtilityIds, updates \in UtilityUpdates, dbFail \in BOOLEAN :
       UpdateUtility(id, updates, dbFail)

(***************************************************************************)
(* controllers/tenantController.js: createTenant.  Every db.query is a     *)
(* statement of its own on the pool (no transaction); the statements of    *)
(* concurrent requests interleave at every await.  A request that has      *)
(* answered keeps its body next to the status it sent.                     *)
(***************************************************************************)
IdleCreate ==
  [pc |-> "idle", status |-> 0,
   body |-> [full_name |-> Undef, phone |-> Undef, id_number |-> Undef,
             unit_id |-> Undef, email |-> Undef]]

normalizePhone(phone) ==
  IF StartsWith(phone, <<"0", "7">>) THEN <<"+", "2", "5", "4">> \o Tail(phone)
  ELSE phone

\* /^\+254[17]\d{8}$/.test(str)
phoneRegexTest(str) ==
  /\ Len(str) = 13 /\ StartsWith(str, <<"+", "2", "5", "4">>)
  /\ str[5] \in {"1", "7"} /\ AllDigits(str, 6, 13)

\* the validators and SELECT tenant_id FROM tenants WHERE id_number = $1
CreateTenantStart(r, body) ==
  /\ creating[r].pc = "idle"
  /\ \A q \in Reqs : q < r => creating[q].pc # "idle"
  /\ Len(tenants) + Cardinality({q \in Reqs : creating[q].pc # "idle"}) < MaxTenants
  /\ LET answer(code) == [pc |-> "idle", status |-> code, body |-> body]
     IN creating' = [creating EXCEPT ![r] =
          IF ~Truthy(body.full_name) \/ ~Truthy(body.phone)
             \/ ~Truthy(body.id_number) THEN answer(400)
          \* phone.startsWith of a value that is no string throws
          ELSE IF body.phone.t # "str" THEN answer(500)
          ELSE IF ~phoneRegexTest(normalizePhone(body.phone.s)) THEN answer(400)
          ELSE IF Len(body.id_number.s) < 8 THEN answer(400)
          ELSE IF \E i \in 1 .. Len(tenants) :
                    tenants[i].id_number = body.id_number.s THEN answer(400)
          ELSE [pc |-> IF Truthy(body.unit_id) THEN "check" ELSE "insert",
                status |-> 0, body |-> body]]
  /\ UNCHANGED <<tenants, units, lastTenant, paying, planVars, commVars, utilVars>>

\* SELECT is_occupied FROM units WHERE unit_id = $1
CreateTenantCheck(r) ==
  /\ creating[r].pc = "check"
  /\ LET u == UnitRef(creating[r].body.unit_id)
     IN creating' = [creating EXCEPT ![r] =
          IF u \notin UnitIds \/ units[u].is_occupied
          THEN [@ EXCEPT !.pc = "idle", !.status = 400]
          ELSE [@ EXCEPT !.pc = "occupy"]]
  /\ UNCHANGED <<tenants, units, lastTenant, paying, planVars, commVars, utilVars>>

\* UPDATE units SET is_occupied = TRUE WHERE unit_id = $1
CreateTenantOccupy(r) ==
  /\ creating[r].pc = "occupy"
  /\ units' = [units EXCEPT ![UnitRef(creating[r].body.unit_id)].is_occupied = TRUE]
  /\ creating' = [creating EXCEPT ![r].pc = "insert"]
  /\ UNCHANGED <<tenants, lastTenant, paying, planVars, commVars, utilVars>>

\* INSERT INTO tenants (..., is_active) VALUES (..., TRUE); id_number is
\* UNIQUE, and the violation is answered by the catch block
CreateTenantInsert(r) ==
  /\ creating[r].pc = "insert"
  /\ LET body == creating[r].body
         taken == \E i \in 1 .. Len(tenants) : tenants[i].id_number = body.id_number.s
         row == [ email |-> body.email.s, unit_id |-> UnitRef(body.unit_id),
                  is_active |-> TRUE, moved_out |-> FALSE,
                  id_number |-> body.id_number.s ]
     IN /\ tenants' = IF taken THEN tenants ELSE Append(tenants, row)
        /\ creating' = [creating EXCEPT ![r].pc = "idle",
                                        ![r].status = IF taken THEN 500 ELSE 201]
  /\ UNCHANGED <<units, lastTenant, paying, planVars, commVars, utilVars>>

\* requests of createTenant: two ID numbers, with no unit, unit 1 or a unit
\* that does not exist; an ID number that is too short; a phone of no format
CreateTenantBodies ==
  LET CreateTenantBody(id_number, unit_id) ==
        [IdleCreate.body EXCEPT !.full_name = Str(<<"A">>), !.phone = GoodPhone,
                                !.id_number = id_number, !.unit_id = unit_id]
      IdNumberA == Str(<<"1", "2", "3", "4", "5", "6", "7", "8">>)
      IdNumberB == Str(<<"8", "7", "6", "5", "4", "3", "2", "1">>)
  IN { CreateTenantBody(i, u) : i \in {IdNumberA, IdNumberB},
                                u \in {Undef, Num(1), Num(NumUnits + 1)} }
     \cup { CreateTenantBody(Str(<<"1">>), Num(1)),
            [CreateTenantBody(IdNumberA, Num(1)) EXCEPT !.phone = Str(<<"1", "2", "3">>)] }

NextCtl ==
  \/ \E r \in Reqs, body \in CreateTenantBodies : CreateTenantStart(r, body)
  \/ \E r \in Reqs : CreateTenantCheck(r)
  \/ \E r \in Reqs : CreateTenantOccupy(r)
  \/ \E r \in Reqs : CreateTenantInsert(r)

(***************************************************************************)
(* markAsPaid statement by statement.  Each request holds a client of the  *)
(* pool and runs BEGIN, SELECT, UPDATE, COMMIT under READ COMMITTED: the   *)
(* SELECT takes no lock and reads what is committed, the UPDATE waits for  *)
(* the row lock of another transaction and then writes the row as it is    *)
(* committed, and its write is seen by others at COMMIT.                   *)
(***************************************************************************)
IdlePay ==
  [pc |-> "idle", status |-> 0, id |-> 0,
   body |-> [paid_date |-> NoDate, payment_reference |-> Undef],
   paid_date |-> NullDate]

\* isValidId, BEGIN, SELECT status, commission_amount ... WHERE commission_id = $1
MarkAsPaidStart(r, id, body) ==
  /\ paying[r].pc = "idle"
  /\ \A q \in Reqs : q < r => paying[q].pc # "idle"
  /\ LET t == [IdlePay EXCEPT !.id = id, !.body = body]
     IN paying' = [paying EXCEPT ![r] =
          IF id = 0 THEN [t EXCEPT !.status = 400]
          ELSE IF id \notin 1 .. Len(commissions) THEN [t EXCEPT !.status = 404]
          ELSE IF commissions[id].status = "paid" THEN [t EXCEPT !.status = 400]
          ELSE [t EXCEPT !.pc = "update"]]
  /\ UNCHANGED <<commVars, creating, planVars, tenantVars, utilVars>>

\* paidDateValue and the UPDATE; new Date(paid_date).toISOString() throws on
\* an invalid date and the catch block rolls back
MarkAsPaidUpdate(r, now) ==
  /\ paying[r].pc = "update"
  /\ IF paying[r].body.paid_date = BadDate
     THEN paying' = [paying EXCEPT ![r].pc = "idle", ![r].status = 500]
     ELSE /\ \A q \in Reqs \ {r} :
               ~(paying[q].pc = "commit" /\ paying[q].id = paying[r].id)
          /\ paying' = [paying EXCEPT
                          ![r].pc = "commit",
                          ![r].paid_date = PaidDateValue(paying[r].body, now)]
  /\ UNCHANGED <<commVars, creating, planVars, tenantVars, utilVars>>

\* COMMIT and the 200 answer
MarkAsPaidCommit(r) ==
  /\ paying[r].pc = "commit"
  /\ commissions' =
       [commissions EXCEPT
          ![paying[r].id].status = "paid",
          ![paying[r].id].paid_date = paying[r].paid_date,
          ![paying[r].id].payment_reference = paying[r].body.payment_reference.s]
  /\ paying' = [paying EXCEPT ![r].pc = "idle", ![r].status = 200]
  /\ UNCHANGED <<lastComm, creating, planVars, tenantVars, utilVars>>

NextPaid ==
  \/ CreateCommission(CommissionBody(Undef, Num(1), Num(1500 * Unit)), FALSE)
  \/ \E r \in Reqs, id \in CommissionIds, body \in PaidBodies :
       MarkAsPaidStart(r, id, body)
  \/ \E r \in Reqs, now \in Clock : MarkAsPaidUpdate(r, now)
  \/ \E r \in Reqs : MarkAsPaidCommit(r)

(***************************************************************************)
(* Specifications: the empty database, and the endpoints of each area      *)
(***************************************************************************)
Init ==
  /\ plans = <<>>
  /\ payments = <<>>
  /\ txn = [r \in Reqs |-> IdleTxn]
  /\ lastPlan = NoLast
  /\ tenants = <<>>
  /\ units = [u \in UnitIds |->
                [is_occupied |-> FALSE, property_id |-> PropertyOfUnit(u)]]
  /\ lastTenant = NoLastTenant
  /\ commissions = <<>>
  /\ lastComm = NoLastComm
  /\ utilities = <<>>
  /\ lastUtil = NoLastUtil
  /\ creating = [r \in Reqs |-> IdleCreate]
  /\ paying = [r \in Reqs |-> IdlePay]

Spec == Init /\ [][Next]_vars

SpecCreate == Init /\ [][NextCreate]_vars

SpecTenant == Init /\ [][NextTenant]_vars

SpecComm == Init /\ [][NextComm]_vars

\* C5: a commission is created pending, and its status moves only from
\* pending to paid or from pending to cancelled; paid and cancelled are final
StatusTransitions_C5 ==
  [][ \A i \in 1 .. Len(commissions') :
        IF i > Len(commissions) THEN commissions'[i].status = "pending"
        ELSE \/ commissions'[i].status = commissions[i].status
             \/ /\ commissions[i].status = "pending"
                /\ commissions'[i].status \in {"paid", "cancelled"} ]_vars

\* C6: on a paid commission updateCommission rejects with 400, and leaves the
\* row alone, every request that carries a whitelisted field other than
\* notes, with or without notes; a request that carries only notes succeeds
\* and changes only notes
PaidOnlyNotes_C6 ==
  [][ \A i \in 1 .. Len(commissions) :
        ( /\ commissions[i].status = "paid"
          /\ lastComm'.op = "updateCommission"
          /\ lastComm'.id = i )
        => LET keys == ObjectKeys(lastComm'.body) \cap UPDATEABLE_FIELDS
           IN /\ keys \ {"notes"} # {}
                   => lastComm'.status = 400 /\ commissions'[i] = commissions[i]
              /\ keys = {"notes"}
                   => /\ lastComm'.status = 200
                      /\ \A k \in DOMAIN commissions[i] \ {"notes"} :
                           commissions'[i][k] = commissions[i][k] ]_vars

\* an amount that is missing, or is a number that is zero or negative
NotPositive(amount) ==
  \/ amount.t = "undef"
  \/ ~isNaN(parseFloat(amount)) /\ parseFloat(amount).v <= 0

\* C11: recordInstallmentPayment answers 400 to an amount that is missing,
\* zero or negative and 404 to an unknown plan id (a failure of the database
\* aside, which answers 500); such a call never enters its transaction, and
\* changes no plan row and inserts no payment row
RequiresPositive_C11 ==
  [][\A r \in Reqs, id \in PlanIds, body \in InstallmentBodies, now \in Clock :
       RecordStart(r, id, body, now)
       => /\ NotPositive(body.amount)
               => /\ txn'[r].pc = "idle"
                  /\ \/ txn'[r].status = 400
                     \/ txn'[r].error = "select"
                     \/ id \notin PlanRows /\ txn'[r].status = 404
          /\ (~NotPositive(body.amount) /\ id \notin PlanRows)
               => /\ txn'[r].pc = "idle"
                  /\ txn'[r].status = 404 \/ txn'[r].error = "select"
          /\ plans' = plans /\ payments' = payments]_vars

\* C12: a tenant creation that names a unit whose is_occupied is true fails:
\* it answers with an error, inserts no tenant row and leaves is_occupied true
OccupiedRejected_C12 ==
  [][\A body \in TenantBodies :
       ( /\ PostTenant(body, "none")
         /\ UnitRef(body.unit_id) \in UnitIds
         /\ units[UnitRef(body.unit_id)].is_occupied )
       => /\ lastTenant'.status = 400
          /\ tenants' = tenants
          /\ units'[UnitRef(body.unit_id)].is_occupied]_vars

(***************************************************************************)
(* The tenant endpoints with a database that may refuse any one statement  *)
(***************************************************************************)
PostFaults == {"none", "insert", "occupy"}
DeleteFaults == {"none", "select", "deactivate", "release"}

NextTenantFault ==
  \/ \E body \in TenantBodies, fault \in PostFaults : PostTenant(body, fault)
  \/ \E id \in TenantIds, updates \in TenantUpdates, fault \in {"none", "update"} :
       PutTenant(id, updates, fault)
  \/ \E id \in TenantIds, fault \in DeleteFaults : DeleteTenant(id, fault)

SpecTenantFault == Init /\ [][NextTenantFault]_vars

\* C13: tenant creation and tenant soft-delete apply the tenant write and
\* the occupancy write of the unit together or not at all: a creation that
\* inserts a tenant leaves its unit occupied, a soft-delete that deactivates
\* a tenant leaves its unit free, and a request that fails changes neither
\* table
TenantWritesAtomic_C13 ==
  [][ /\ \A body \in TenantBodies, fault \in PostFaults :
           PostTenant(body, fault)
           => /\ Len(tenants') > Len(tenants)
                   => units'[UnitRef(body.unit_id)].is_occupied
              /\ lastTenant'.status # 201
                   => tenants' = tenants /\ units' = units
      /\ \A id \in TenantIds, fault \in DeleteFaults :
           DeleteTenant(id, fault)
           => /\ tenants' # tenants
                   => ~units'[tenants[id].unit_id].is_occupied
              /\ lastTenant'.status # 200
                   => tenants' = tenants /\ units' = units ]_vars

\* C14: no step removes a tenant row; a delete of an existing tenant keeps
\* the row, sets is_active false with the move-out date set, and sets
\* is_occupied false on the unit the tenant references; a delete of an
\* unknown id answers 404 and changes no tenant and no unit
SoftDelete_C14 ==
  [][ /\ Len(tenants') >= Len(tenants)
      /\ \A id \in TenantIds :
           DeleteTenant(id, "none")
           => IF id \in 1 .. Len(tenants)
              THEN /\ lastTenant'.status = 200
                   /\ tenants' = [tenants EXCEPT ![id].is_active = FALSE,
                                                 ![id].moved_out = TRUE]
                   /\ units' = [units EXCEPT
                                  ![tenants[id].unit_id].is_occupied = FALSE]
              ELSE /\ lastTenant'.status = 404
                   /\ tenants' = tenants /\ units' = units ]_vars

\* C14 witness: an active tenant of an occupied unit was deleted
SoftDelete_C14_Witness ==
  /\ lastTenant.op = "delete" /\ lastTenant.status = 200
  /\ lastTenant.id \in 1 .. Len(tenants)
  /\ ~tenants[lastTenant.id].is_active /\ tenants[lastTenant.id].moved_out
  /\ ~units[tenants[lastTenant.id].unit_id].is_occupied
  /\ ActiveTenantsOf(tenants[lastTenant.id].unit_id) = {}

\* C15: no two active tenants share an email, and a creation whose email is
\* that of an active tenant answers 400 and inserts no tenant row
UniqueActiveEmail_C15 ==
  [][ /\ \A body \in TenantBodies :
           ( /\ PostTenant(body, "none")
             /\ \E i \in 1 .. Len(tenants) :
                  tenants[i].is_active /\ tenants[i].email = body.email.s )
           => lastTenant'.status = 400 /\ tenants' = tenants
      /\ \A i, j \in 1 .. Len(tenants') :
           ( /\ i # j
             /\ tenants'[i].is_active /\ tenants'[j].is_active )
           => tenants'[i].email # tenants'[j].email ]_vars

(***************************************************************************)
(* Payments: controllers/paymentController.js                              *)
(***************************************************************************)
\* the response of a payment endpoint, kept in lastPlan
PaymentResponse(op, status) ==
  [op |-> op, status |-> status, error |-> "", body |-> NoBody]

\* the database takes the value as a numeric
NumericInput(v) == v.t = "num" \/ (v.t = "str" /\ IsNumericLiteral(v.s))

\* createPayment without its check that the amount is positive
CreatePaymentAnyAmount(body, now, dbFail) ==
  LET status ==
        IF dbFail THEN 500
        ELSE IF ~Truthy(body.tenant_id) \/ ~Truthy(body.amount)
                \/ ~Truthy(body.payment_method) THEN 400
        ELSE IF ~NumericInput(body.amount) \/ body.payment_date.t = "bad" THEN 500
        ELSE 201
      row == [ tenant_id |-> IdRef(body.tenant_id),
               amount |-> RoundToCents(ToNumber(body.amount).v),
               payment_date |-> IF body.payment_date.t = "undef" THEN now
                                ELSE Date(body.payment_date.y, body.payment_date.m,
                                          body.payment_date.d),
               payment_method |-> body.payment_method.s[1],
               plan |-> 0,
               payment_status |-> "completed" ]
  IN /\ status = 201
          => Len(payments) + Cardinality({q \in Reqs : InFlight(q)}) < MaxPayments
     /\ payments' = IF status = 201 THEN Append(payments, row) ELSE payments
     /\ lastPlan' = PaymentResponse("createPayment", status)
     /\ UNCHANGED <<plans, txn, tenantVars, commVars, utilVars, reqVars>>

\* createPayment, lines 388-474
CreatePayment(body, now, dbFail) ==
  LET status ==
        IF dbFail THEN 500
        ELSE IF ~Truthy(body.tenant_id) \/ ~Truthy(body.amount)
                \/ ~Truthy(body.payment_method) THEN 400
        \* amount <= 0 compares Number(amount); false of NaN
        ELSE IF ~isNaN(ToNumber(body.amount)) /\ ToNumber(body.amount).v <= 0
        THEN 400
        ELSE IF ~NumericInput(body.amount) \/ body.payment_date.t = "bad" THEN 500
        ELSE 201
      row == [ tenant_id |-> IdRef(body.tenant_id),
               amount |-> RoundToCents(ToNumber(body.amount).v),
               payment_date |-> IF body.payment_date.t = "undef" THEN now
                                ELSE Date(body.payment_date.y, body.payment_date.m,
                                          body.payment_date.d),
               payment_method |-> body.payment_method.s[1],
               plan |-> 0,
               payment_status |-> "completed" ]
  IN /\ status = 201
          => Len(payments) + Cardinality({q \in Reqs : InFlight(q)}) < MaxPayments
     /\ payments' = IF status = 201 THEN Append(payments, row) ELSE payments
     /\ lastPlan' = PaymentResponse("createPayment", status)
     /\ UNCHANGED <<plans, txn, tenantVars, commVars, utilVars, reqVars>>

\* a column after COALESCE($n, column): undefined and null keep the column
Coalesce(v, new, current) == IF v.t \in {"undef", "null"} THEN current ELSE new

\* updatePayment, lines 479-552
UpdatePayment(id, body, dbFail) ==
  LET found == id \in 1 .. Len(payments)
      status ==
        IF dbFail THEN 500
        ELSE IF ~found THEN 404
        ELSE IF (body.amount.t \notin {"undef", "null"} /\ ~NumericInput(body.amount))
                \/ body.payment_date.t = "bad" THEN 500
        ELSE 200
      row == [ payments[id] EXCEPT
                 !.amount = Coalesce(body.amount,
                                     RoundToCents(ToNumber(body.amount).v), @),
                 !.payment_date =
                   IF body.payment_date.t = "undef" THEN @
                   ELSE Date(body.payment_date.y, body.payment_date.m,
                             body.payment_date.d),
                 !.payment_method =
                   Coalesce(body.payment_method,
                            IF Len(body.payment_method.s) > 0
                            THEN body.payment_method.s[1] ELSE "", @),
                 !.payment_status =
                   Coalesce(body.payment_status,
                            IF Len(body.payment_status.s) > 0
                            THEN body.payment_status.s[1] ELSE "", @) ]
  IN /\ payments' = IF status = 200 THEN [payments EXCEPT ![id] = row] ELSE payments
     /\ lastPlan' = PaymentResponse("updatePayment", status)
     /\ UNCHANGED <<plans, txn, tenantVars, commVars, utilVars, reqVars>>

\* DeletePayment as it would be with a physical DELETE FROM payments
DeletePaymentHard(id, dbFail) ==
  LET found == id \in 1 .. Len(payments)
      status == IF dbFail THEN 500 ELSE IF ~found THEN 404 ELSE 200
  IN /\ payments' =
          IF status = 200
          THEN [i \in 1 .. (Len(payments) - 1) |->
                  IF i < id THEN payments[i] ELSE payments[i + 1]]
          ELSE payments
     /\ lastPlan' = PaymentResponse("deletePayment", status)
     /\ UNCHANGED <<plans, txn, tenantVars, commVars, utilVars, reqVars>>

\* deletePayment, lines 557-596: a status change, whatever the status was
DeletePayment(id, dbFail) ==
  LET found == id \in 1 .. Len(payments)
      status == IF dbFail THEN 500 ELSE IF ~found THEN 404 ELSE 200
  IN /\ payments' =
          IF status = 200
          THEN [payments EXCEPT ![id].payment_status = "cancelled"]
          ELSE payments
     /\ lastPlan' = PaymentResponse("deletePayment", status)
     /\ UNCHANGED <<plans, txn, tenantVars, commVars, utilVars, reqVars>>

\* requests of the payment endpoints
NoPaymentFields == [ tenant_id |-> Undef, amount |-> Undef, payment_date |-> NoDate,
                     payment_method |-> Undef, payment_status |-> Undef ]

PaymentBodies ==
  { [NoPaymentFields EXCEPT !.tenant_id = Num(1), !.amount = a,
                            !.payment_method = Text("Cash")]
      : a \in {Num(500 * Unit), Undef, Num(0), Str(<<"0">>), Num(0 - 5 * Unit)} }
  \cup { [NoPaymentFields EXCEPT !.amount = Num(500 * Unit),
                                 !.payment_method = Text("Cash")],
         [NoPaymentFields EXCEPT !.tenant_id = Num(1), !.amount = Num(500 * Unit)] }
  \cup { [NoPaymentFields EXCEPT !.tenant_id = Num(1), !.amount = Num(500 * Unit),
                                 !.payment_method = Text("Cash"),
                                 !.payment_date = BadDate] }

PaymentUpdates ==
  { NoPaymentFields,
    [NoPaymentFields EXCEPT !.amount = Num(700 * Unit),
                            !.payment_status = Text("pending")] }

PaymentIds == 1 .. (MaxPayments + 1)

InstallmentOf1000 ==
  [amount |-> Str(<<"1", "0", "0", "0">>), payment_date |-> NoDate]

NextPay ==
  \/ \E body \in PaymentBodies, now \in Clock : CreatePayment(body, now, FALSE)
  \/ \E id \in PaymentIds, body \in PaymentUpdates : UpdatePayment(id, body, FALSE)
  \/ \E id \in PaymentIds, dbFail \in BOOLEAN : DeletePayment(id, dbFail)
  \/ \E body \in PlanBodies : CreatePaymentPlan(body)
  \* installments one at a time
  \/ \E id \in PlanIds, now \in Clock : RecordStart(1, id, InstallmentOf1000, now)
  \/ RecordUpdate(1)
  \/ RecordInsert(1)
  \/ RecordCommit(1)

SpecPay == Init /\ [][NextPay]_vars

\* C16: no step removes a payment row; deletePayment on an existing payment
\* changes nothing but its payment_status, which becomes cancelled, and on an
\* unknown id answers 404 and changes nothing
AppendOnly_C16 ==
  [][ /\ Len(payments') >= Len(payments)
      /\ \A i \in 1 .. Len(payments) :
           /\ payments'[i].tenant_id = payments[i].tenant_id
           /\ payments'[i].plan = payments[i].plan
      /\ \A id \in PaymentIds :
           DeletePayment(id, FALSE)
           => IF id \in 1 .. Len(payments)
              THEN /\ lastPlan'.status = 200
                   /\ payments' = [payments EXCEPT ![id].payment_status = "cancelled"]
              ELSE /\ lastPlan'.status = 404
                   /\ payments' = payments ]_vars

\* C16 witness: a payment recorded with an installment was cancelled and is
\* still in the table, next to a later payment
AppendOnly_C16_Witness ==
  /\ lastPlan.op = "deletePayment" /\ lastPlan.status = 200
  /\ Len(payments) = 2
  /\ payments[1].plan = 1 /\ payments[1].payment_status = "cancelled"
  /\ payments[2].payment_status = "completed"

\* C17: once a payment row exists no step changes its tenant, amount, date or
\* method, and the status of every payment row is completed or cancelled
Immutable_C17 ==
  [][ /\ \A i \in 1 .. Len(payments) :
           /\ i <= Len(payments')
           /\ payments'[i].tenant_id = payments[i].tenant_id
           /\ payments'[i].amount = payments[i].amount
           /\ payments'[i].payment_date = payments[i].payment_date
           /\ payments'[i].payment_method = payments[i].payment_method
      /\ \A i \in 1 .. Len(payments') :
           payments'[i].payment_status \in {"completed", "cancelled"} ]_vars

\* C18: deletePayment on a payment that is already cancelled answers with an
\* error (404 or another 4xx) and leaves the payments table as it was
CancelTwice_C18 ==
  [][ \A id \in PaymentIds :
        ( /\ DeletePayment(id, FALSE)
          /\ id \in 1 .. Len(payments)
          /\ payments[id].payment_status = "cancelled" )
        => /\ lastPlan'.status \in 400 .. 499
           /\ payments' = payments ]_vars

\* the commission endpoints that settle or cancel a commission, over one
\* creation body and two updates
NextCommPay ==
  \/ CreateCommission(CommissionBody(Undef, Num(1), Num(1500 * Unit)), FALSE)
  \/ \E id \in CommissionIds,
          updates \in { [NoFields EXCEPT !.notes = Text("x")],
                        [NoFields EXCEPT !.status = Str(<<>>)] } :
       UpdateCommission(id, updates, FALSE)
  \/ \E id \in CommissionIds, body \in PaidBodies, now \in Clock :
       MarkAsPaid(id, body, now, FALSE)
  \/ \E id \in CommissionIds, reason \in Reasons :
       DeleteCommission(id, reason, FALSE)

SpecCommPay == Init /\ [][NextCommPay]_vars

CancelCommission_C20 ==
  [][ \A id \in CommissionIds, reason \in Reasons :
        ( DeleteCommission(id, reason, FALSE) /\ id \in 1 .. Len(commissions) )
        => IF commissions[id].status = "paid"
           THEN lastComm'.status = 400 /\ commissions' = commissions
           ELSE LET old == commissions[id].notes
                    new == commissions'[id].notes
                    given == IF reason = Undef THEN "No reason provided"
                             ELSE reason.s[1]
                IN /\ lastComm'.status = 200
                   /\ Len(commissions') = Len(commissions)
                   /\ commissions'[id].status = "cancelled"
                   /\ Len(new) > Len(old)
                   /\ SubSeq(new, 1, Len(old)) = old
                   /\ \E i \in (Len(old) + 1) .. Len(new) : new[i] = given ]_vars

CancelCommission_C20_Witness ==
  /\ lastComm.op = "deleteCommission" /\ lastComm.status = 200
  /\ lastComm.id \in 1 .. Len(commissions)
  /\ commissions[lastComm.id].status = "cancelled"
  /\ commissions[lastComm.id].notes = <<"x", " [CANCELLED: ", "duplicate", "]">>

(***************************************************************************)
(* The references of a commission: createCommission and updateCommission   *)
(* over updates of tenant_id and property_id                               *)
(***************************************************************************)
ReferenceUpdates ==
  { [NoFields EXCEPT !.property_id = Num(2)],
    [NoFields EXCEPT !.property_id = Num(3)],
    [NoFields EXCEPT !.tenant_id = Num(1)],
    [NoFields EXCEPT !.tenant_id = Num(MaxTenants + 1)] }

NextCommRef ==
  \/ PostTenant(CommTenantBody, "none")
  \/ \E body \in CommissionBodies : CreateCommission(body, FALSE)
  \/ \E id \in CommissionIds, updates \in ReferenceUpdates :
       UpdateCommission(id, updates, FALSE)

SpecCommRef == Init /\ [][NextCommRef]_vars

\* C21: every commission references an existing property and, when its
\* tenant_id is set, a tenant that exists and whose unit is of that property;
\* a createCommission or updateCommission that would break this answers 400
\* and leaves the commissions as they were
References_C21 ==
  [][ /\ \A i \in 1 .. Len(commissions') :
           LET c == commissions'[i]
           IN /\ c.property_id \in PropertyIds
              /\ c.tenant_id # 0
                 => /\ c.tenant_id \in 1 .. Len(tenants')
                    /\ tenants'[c.tenant_id].unit_id \in UnitIds
                    /\ PropertyOfUnit(tenants'[c.tenant_id].unit_id) = c.property_id
      /\ \A id \in CommissionIds, updates \in ReferenceUpdates :
           ( /\ UpdateCommission(id, updates, FALSE)
             /\ id \in 1 .. Len(commissions)
             /\ LET p == IF updates.property_id = Undef
                         THEN commissions[id].property_id
                         ELSE IdRef(updates.property_id)
                    t == IF updates.tenant_id = Undef
                         THEN commissions[id].tenant_id
                         ELSE IdRef(updates.tenant_id)
                IN \/ p \notin PropertyIds
                   \/ /\ t # 0
                      /\ ~( /\ t \in 1 .. Len(tenants)
                            /\ PropertyOfUnit(tenants[t].unit_id) = p ) )
           => lastComm'.status = 400 /\ commissions' = commissions ]_vars

(***************************************************************************)
(* calculateNextDueDate over a range of start dates and frequencies, as    *)
(* createPaymentPlan applies it to start_date                              *)
(***************************************************************************)
DueStartDates ==
  { IsoDate(y, m, d) : y \in {2024, 2025}, m \in {1, 11, 12}, d \in {25, 30, 31} }

DueBodies ==
  { [ScenarioA EXCEPT !.start_date = s, !.installment_frequency = f]
      : s \in {x \in DueStartDates : x.d <= DaysInMonth(x.y, x.m)},
        f \in validFrequencies }

NextDue == \E body \in DueBodies : CreatePaymentPlan(body)

SpecDue == Init /\ [][NextDue]_vars

\* C22: the next due date of a plan is its start date moved by 7 days
\* (weekly), 14 days (biweekly), or to the same day of the month 1 (monthly)
\* or 3 (quarterly) calendar months later, the year rolling over
NextDueDate_C22 ==
  \A i \in 1 .. Len(plans) :
    LET s == plans[i].start_date
        n == plans[i].next_due_date
        f == plans[i].installment_frequency
        DaysLater(k) ==
          IF s.d + k <= DaysInMonth(s.y, s.m) THEN Date(s.y, s.m, s.d + k)
          ELSE IF s.m = 12 THEN Date(s.y + 1, 1, s.d + k - 31)
          ELSE Date(s.y, s.m + 1, s.d + k - DaysInMonth(s.y, s.m))
        MonthsLater(k) ==
          IF s.m + k > 12 THEN Date(s.y + 1, s.m + k - 12, s.d)
          ELSE Date(s.y, s.m + k, s.d)
    IN CASE f = "weekly" -> n = DaysLater(7)
         [] f = "biweekly" -> n = DaysLater(14)
         [] f = "monthly" -> n = MonthsLater(1)
         [] f = "quarterly" -> n = MonthsLater(3)
         [] OTHER -> TRUE

\* C23: for a monthly or quarterly plan the next due date lies in the
\* calendar month 1 or 3 months after that of the start date, and is the last
\* day of that month when the start day does not exist in it
Clamped_C23 ==
  \A i \in 1 .. Len(plans) :
    LET s == plans[i].start_date
        n == plans[i].next_due_date
        f == plans[i].installment_frequency
        k == IF f = "monthly" THEN 1 ELSE 3
        ty == IF s.m + k > 12 THEN s.y + 1 ELSE s.y
        tm == IF s.m + k > 12 THEN s.m + k - 12 ELSE s.m + k
    IN f \in {"monthly", "quarterly"}
       => /\ n.y = ty /\ n.m = tm
          /\ s.d > DaysInMonth(ty, tm) => n.d = DaysInMonth(ty, tm)

\* C24: createPayment without tenant_id, amount or payment_method, or with an
\* amount that is not positive, answers 400 and inserts nothing; a call that
\* is accepted appends exactly one payment, with payment_status completed
CreatePayment_C24 ==
  [][ \A body \in PaymentBodies, now \in Clock :
        ( lastPlan'.op = "createPayment" /\ CreatePayment(body, now, FALSE) )
        => /\ ( \/ body.tenant_id = Undef \/ body.amount = Undef
                \/ body.payment_method = Undef
                \/ (body.amount.t = "num" /\ body.amount.n <= 0)
                \/ body.amount = Str(<<"0">>) )
              => lastPlan'.status = 400 /\ payments' = payments
           /\ IF lastPlan'.status = 201
              THEN /\ Len(payments') = Len(payments) + 1
                   /\ SubSeq(payments', 1, Len(payments)) = payments
                   /\ payments'[Len(payments')].payment_status = "completed"
              ELSE payments' = payments ]_vars

CreatePayment_C24_Witness ==
  /\ lastPlan.op = "createPayment" /\ lastPlan.status = 201
  /\ Len(payments) = 2
  /\ payments[2].amount = 500 * Unit /\ payments[2].payment_status = "completed"
  /\ payments[2].plan = 0

\* C25: a tenant creation without full_name, phone, email or unit_id, with a
\* phone that is no Kenyan number or with an email without "@" answers 400,
\* inserts no tenant and changes no unit
TenantValidation_C25 ==
  [][ \A body \in TenantBodies :
        ( /\ lastTenant'.op = "post" /\ PostTenant(body, "none")
          /\ \/ Undef \in {body.full_name, body.phone, body.email, body.unit_id}
             \/ body.phone = Str(<<"1", "2", "3">>)
             \/ body.email = Str(<<"a", "b">>) )
        => /\ lastTenant'.status = 400
           /\ tenants' = tenants
           /\ units' = units ]_vars

TenantValidation_C25_Witness ==
  /\ lastTenant.op = "post" /\ lastTenant.status = 400
  /\ lastTenant.body.email = Str(<<"a", "b">>)
  /\ Len(tenants) = 1 /\ tenants[1].is_active
  /\ units[tenants[1].unit_id].is_occupied

SpecUtil == Init /\ [][NextUtil]_vars

\* C26: every stored utility bill has units_consumed = current_reading -
\* previous_reading and amount_due = units_consumed * rate_per_unit
Derived_C26 ==
  \A i \in 1 .. Len(utilities) :
    /\ utilities[i].units_consumed
         = utilities[i].current_reading - utilities[i].previous_reading
    /\ utilities[i].amount_due * Unit
         = utilities[i].units_consumed * utilities[i].rate_per_unit

\* C27: a payment plan is completed exactly when its balance is at most 0,
\* and has no next due date exactly when it is completed
StatusBalance_C27 ==
  \A i \in PlanRows :
    /\ plans[i].status = "completed" <=> plans[i].balance <= 0
    /\ plans[i].next_due_date = NullDate <=> plans[i].status = "completed"

\* C28: the amount_paid of a plan is the sum of the amounts of the payment
\* rows that the installments on that plan inserted
PaidIsSum_C28 ==
  \A i \in PlanRows :
    LET RECURSIVE SumTo(_)
        SumTo(k) == IF k = 0 THEN 0
                    ELSE SumTo(k - 1)
                         + (IF payments[k].plan = i THEN payments[k].amount ELSE 0)
    IN plans[i].amount_paid = SumTo(Len(payments))

SpecCtl == Init /\ [][NextCtl]_vars

\* C29: whatever the interleaving of the createTenant requests for a unit,
\* the unit has at most one active tenant, and two requests for the same unit
\* never both answer 201
OneTenantPerUnit_C29 ==
  /\ \A u \in UnitIds : Cardinality(ActiveTenantsOf(u)) <= 1
  /\ \A r, q \in Reqs :
       ( /\ r # q
         /\ creating[r].status = 201 /\ creating[q].status = 201
         /\ Truthy(creating[r].body.unit_id) )
       => creating[r].body.unit_id # creating[q].body.unit_id

SpecPaid == Init /\ [][NextPaid]_vars

\* C30: whatever the interleaving of two markAsPaid requests for a pending
\* commission, at most one of them answers 200, and the paid_date and
\* payment_reference of a paid commission are never written again
MarkAsPaidOnce_C30 ==
  /\ [](\A r, q \in Reqs :
          (r # q /\ paying[r].status = 200 /\ paying[q].status = 200)
          => paying[r].id # paying[q].id)
  /\ [][\A id \in 1 .. Len(commissions) :
          commissions[id].status = "paid"
          => /\ commissions'[id].paid_date = commissions[id].paid_date
             /\ commissions'[id].payment_reference
                  = commissions[id].payment_reference]_vars
====
